---- MODULE Spec2Model ----
(***************************************************************************)
(* A model of stock_data_agent.py: FinancialDataParser (text helpers),     *)
(* StockDataAgent (safe_goto, extract_data_from_url, scrape_company, run,  *)
(* save_results) and __main__.                                             *)
(* Text is a sequence of one-character strings, so that searching,         *)
(* lower-casing and cleaning are computed character by character.          *)
(* An optional value (Python's None or a value) is a sequence of length 0  *)
(* or 1.                                                                   *)
(***************************************************************************)
EXTENDS Integers, Sequences, FiniteSets, TLC

(***************************************************************************)
(* Bounds of the model.                                                    *)
(***************************************************************************)
\* how many companies of the input list are processed
NumCompanies == 2
\* how many entries of target_sites, in configuration order, are modelled
NumSites == 2
\* records an agent used as a library collects
MaxRecords == 2
\* calls of save_results by the user of the agent
MaxSaves == 2
\* the clock stops here
MaxNow == 3
\* ticks of the clock in one second
TicksPerSecond == 2
\* the longest text given to clean_text
MaxTextLen == 5
\* the most rows of the first table of a scanned document
MaxRows == 2
\* the most words around the number in a text given to extract_amount
MaxWords == 2

(***************************************************************************)
(* Characters and strings.                                                 *)
(***************************************************************************)
None == <<>>
Some(x) == <<x>>

UpperChars == <<"A", "B", "C", "D", "E", "F", "G", "H", "I", "J", "K", "L", "M", "N", "O", "P", "Q", "R", "S", "T", "U", "V", "W", "X", "Y", "Z">>
LowerChars == <<"a", "b", "c", "d", "e", "f", "g", "h", "i", "j", "k", "l", "m", "n", "o", "p", "q", "r", "s", "t", "u", "v", "w", "x", "y", "z">>
DigitChars == <<"0", "1", "2", "3", "4", "5", "6", "7", "8", "9">>

Range(s) == {s[i] : i \in DOMAIN s}

\* str.lower() on one character
LowerChar(c) ==
    IF \E i \in DOMAIN UpperChars : UpperChars[i] = c
    THEN LowerChars[CHOOSE i \in DOMAIN UpperChars : UpperChars[i] = c]
    ELSE c

\* str.lower()
Lower(s) == [i \in DOMAIN s |-> LowerChar(s[i])]

\* str.isspace() on one character; also the regex class \s
IsSpace(c) == c \in {" ", "\t", "\n", "\r"}

\* the regex class \w
IsWord(c) == c \in Range(UpperChars) \cup Range(LowerChars) \cup Range(DigitChars) \cup {"_"}

\* k in s   (substring test)
Contains(s, k) ==
    \E i \in 1..(Len(s) - Len(k) + 1) : SubSeq(s, i, i + Len(k) - 1) = k

\* s.startswith(k)
StartsWith(s, k) == Len(s) >= Len(k) /\ SubSeq(s, 1, Len(k)) = k

\* s.replace(a, b) for single characters a and b
ReplaceChar(s, a, b) == [i \in DOMAIN s |-> IF s[i] = a THEN b ELSE s[i]]

\* str.strip()
RECURSIVE LStrip(_)
LStrip(s) == IF s # <<>> /\ IsSpace(Head(s)) THEN LStrip(Tail(s)) ELSE s

RECURSIVE RStrip(_)
RStrip(s) ==
    IF s # <<>> /\ IsSpace(s[Len(s)]) THEN RStrip(SubSeq(s, 1, Len(s) - 1)) ELSE s

Strip(s) == RStrip(LStrip(s))

\* str.split(): the maximal runs of non-whitespace characters
RECURSIVE SplitWords(_, _)
SplitWords(s, cur) ==
    IF s = <<>> THEN (IF cur = <<>> THEN <<>> ELSE <<cur>>)
    ELSE IF IsSpace(Head(s))
         THEN (IF cur = <<>> THEN <<>> ELSE <<cur>>) \o SplitWords(Tail(s), <<>>)
         ELSE SplitWords(Tail(s), Append(cur, Head(s)))

Split(s) == SplitWords(s, <<>>)

\* ' '.join(words)
RECURSIVE JoinSpace(_)
JoinSpace(words) ==
    IF words = <<>> THEN <<>>
    ELSE IF Len(words) = 1 THEN words[1]
    ELSE words[1] \o <<" ">> \o JoinSpace(Tail(words))

(***************************************************************************)
(* FinancialDataParser.clean_text                                          *)
(***************************************************************************)
\* the characters the substitution [^\w\s%₹$€£.-] leaves in place
CleanKeeps(c) == IsWord(c) \/ IsSpace(c) \/ c \in {"%", "₹", "$", "€", "£", ".", "-"}

RECURSIVE CleanSub(_)
CleanSub(s) ==
    IF s = <<>> THEN <<>>
    ELSE IF CleanKeeps(Head(s)) THEN <<Head(s)>> \o CleanSub(Tail(s))
    ELSE CleanSub(Tail(s))

clean_text(text) ==
    IF text = <<>> THEN <<>>
    ELSE Strip(CleanSub(JoinSpace(Split(text))))

(***************************************************************************)
(* FinancialDataParser.extract_amount (lines 36-68).  A Decimal is the     *)
(* record [coef, exp] of the number coef * 10^exp, kept with no trailing   *)
(* zero in coef, so that equal numbers are equal records.                  *)
(***************************************************************************)
IsDigit(c) == c \in Range(DigitChars)

\* text.replace(',', '')
RemoveCommas(s) == SelectSeq(s, LAMBDA c : c # ",")

\* the first index from i on that holds no digit: the end of a greedy \d run
RECURSIVE DigitsEnd(_, _)
DigitsEnd(s, i) == IF i <= Len(s) /\ IsDigit(s[i]) THEN DigitsEnd(s, i + 1) ELSE i

\* re.search(r'(-?\d+\.?\d*)', text): the leftmost match, each part greedy
number_match(s) ==
    LET starts == {p \in DOMAIN s : \/ IsDigit(s[p])
                                    \/ s[p] = "-" /\ p < Len(s) /\ IsDigit(s[p + 1])}
    IN IF starts = {} THEN None
       ELSE LET p == CHOOSE q \in starts : \A r \in starts : q <= r
                d == IF s[p] = "-" THEN p + 1 ELSE p
                e == DigitsEnd(s, d)
                f == IF e <= Len(s) /\ s[e] = "." THEN DigitsEnd(s, e + 1) ELSE e
            IN Some(SubSeq(s, p, f - 1))

\* the integer written by a string of digits
RECURSIVE Coefficient(_, _)
Coefficient(digits, acc) ==
    IF digits = <<>> THEN acc
    ELSE Coefficient(Tail(digits),
                     10 * acc + (CHOOSE d \in 0..9 : DigitChars[d + 1] = Head(digits)))

RECURSIVE Normalize(_)
Normalize(d) ==
    IF d.coef = 0 THEN [coef |-> 0, exp |-> 0]
    ELSE IF d.coef % 10 = 0 THEN Normalize([coef |-> d.coef \div 10, exp |-> d.exp + 1])
    ELSE d

\* Decimal(str) of an optional sign, digits, and an optional point and digits
Decimal(str) ==
    LET negative == str[1] = "-"
        digits == SelectSeq(str, IsDigit)
        point == {i \in DOMAIN str : str[i] = "."}
        places == IF point = {} THEN 0 ELSE Len(str) - (CHOOSE i \in point : TRUE)
        n == Coefficient(digits, 0)
    IN Normalize([coef |-> IF negative THEN 0 - n ELSE n, exp |-> 0 - places])

\* amount *= multiplier
DecimalTimes(a, b) == Normalize([coef |-> a.coef * b.coef, exp |-> a.exp + b.exp])

\* lines 52-61, in the order of the dict
multipliers ==
    <<<<<<"c", "r">>, Decimal(<<"1", "0", "0", "0", "0", "0", "0", "0">>)>>,
       <<<<"c", "r", "o", "r", "e">>, Decimal(<<"1", "0", "0", "0", "0", "0", "0", "0">>)>>,
       <<<<"l", "a", "k", "h">>, Decimal(<<"1", "0", "0", "0", "0", "0">>)>>,
       <<<<"l", "a", "k", "h", "s">>, Decimal(<<"1", "0", "0", "0", "0", "0">>)>>,
       <<<<"m", "i", "l", "l", "i", "o", "n">>, Decimal(<<"1", "0", "0", "0", "0", "0", "0">>)>>,
       <<<<"m", "n">>, Decimal(<<"1", "0", "0", "0", "0", "0", "0">>)>>,
       <<<<"b", "i", "l", "l", "i", "o", "n">>, Decimal(<<"1", "0", "0", "0", "0", "0", "0", "0", "0", "0">>)>>,
       <<<<"b", "n">>, Decimal(<<"1", "0", "0", "0", "0", "0", "0", "0", "0", "0">>)>>>>

\* the loop of lines 63-66 without its break: every unit found multiplies
RECURSIVE ApplyMultiplier_NoBreak(_, _, _)
ApplyMultiplier_NoBreak(a, text, i) ==
    IF i > Len(multipliers) THEN a
    ELSE IF Contains(text, multipliers[i][1])
    THEN ApplyMultiplier_NoBreak(DecimalTimes(a, multipliers[i][2]), text, i + 1)
    ELSE ApplyMultiplier_NoBreak(a, text, i + 1)

\* the loop of lines 63-66 from the i-th unit on
RECURSIVE ApplyMultiplier(_, _, _)
ApplyMultiplier(a, text, i) ==
    IF i > Len(multipliers) THEN a
    ELSE IF Contains(text, multipliers[i][1]) THEN DecimalTimes(a, multipliers[i][2])
    ELSE ApplyMultiplier(a, text, i + 1)

extract_amount(text) ==
    IF text = <<>> THEN None
    ELSE LET lowered == Lower(RemoveCommas(text))
             m == number_match(lowered)
         IN IF m = None THEN None
            ELSE Some(ApplyMultiplier(Decimal(m[1]), lowered, 1))

(***************************************************************************)
(* The literal words of the category patterns (lines 140-145).             *)
(***************************************************************************)
KW_growth == <<"g", "r", "o", "w", "t", "h">>
KW_increase == <<"i", "n", "c", "r", "e", "a", "s", "e">>
KW_yoy == <<"y", "o", "y">>
KW_cagr == <<"c", "a", "g", "r">>
KW_rate == <<"r", "a", "t", "e">>
KW_performance == <<"p", "e", "r", "f", "o", "r", "m", "a", "n", "c", "e">>
KW_return == <<"r", "e", "t", "u", "r", "n">>
KW_metric == <<"m", "e", "t", "r", "i", "c">>
KW_profit == <<"p", "r", "o", "f", "i", "t">>
KW_revenue == <<"r", "e", "v", "e", "n", "u", "e">>
KW_qoq == <<"q", "o", "q">>
KW_quarter == <<"q", "u", "a", "r", "t", "e", "r">>
KW_year == <<"y", "e", "a", "r">>
KW_change == <<"c", "h", "a", "n", "g", "e">>
KW_capex == <<"c", "a", "p", "e", "x">>
KW_capital == <<"c", "a", "p", "i", "t", "a", "l">>
KW_expenditure == <<"e", "x", "p", "e", "n", "d", "i", "t", "u", "r", "e">>
KW_investment == <<"i", "n", "v", "e", "s", "t", "m", "e", "n", "t">>

\* len(text.strip()) > 10 (line 163)
MinTextLen == 10

(***************************************************************************)
(* extract_data_from_url: the category patterns and the document scan.     *)
(***************************************************************************)
\* self.data_points.keys(), in insertion order
Categories == <<"growth_rate", "performance", "marginal_changes", "capex">>

\* patterns: each alternative of a pattern is a sequence of literal words
\* separated by \s+
patterns ==
    [growth_rate |-> {<<KW_growth>>, <<KW_increase>>, <<KW_yoy>>, <<KW_cagr>>, <<KW_growth, KW_rate>>},
     performance |-> {<<KW_performance>>, <<KW_return>>, <<KW_metric>>, <<KW_profit>>, <<KW_revenue>>},
     marginal_changes |-> {<<KW_qoq>>, <<KW_yoy>>, <<KW_quarter>>, <<KW_year>>, <<KW_change>>},
     capex |-> {<<KW_capex>>, <<KW_capital, KW_expenditure>>, <<KW_investment>>}]

\* one alternative found somewhere in the lower-cased string s
AltFound(s, alt) ==
    IF Len(alt) = 1 THEN Contains(s, alt[1])
    ELSE \E i \in 1..Len(s) : \E j \in (i + Len(alt[1]) + 1)..Len(s) :
            /\ SubSeq(s, i, i + Len(alt[1]) - 1) = alt[1]
            /\ \A k \in (i + Len(alt[1]))..(j - 1) : IsSpace(s[k])
            /\ j + Len(alt[2]) - 1 <= Len(s)
            /\ SubSeq(s, j, j + Len(alt[2]) - 1) = alt[2]

\* re.compile(patterns[data_type], re.I).search(s)
PatternSearch(data_type, s) == \E alt \in patterns[data_type] : AltFound(Lower(s), alt)

\* A parsed document is the sequence of its elements in document order.  An
\* element has its tag, the text nodes that are its direct children (own),
\* its .string (hasString is FALSE when .string is None), its
\* get_text(strip=True) and the number of the table it lies in (0: none).
Elem(tag, own, hasString, string, text, table) ==
    [tag |-> tag, own |-> own, hasString |-> hasString, string |-> string,
     text |-> text, table |-> table]

BlockTags == {"div", "p", "td", "tr", "li"}

\* soup.find_all(['div', 'p', 'td', 'tr', 'li'], text=re.compile(...))
FindAllByText(doc, data_type) ==
    SelectSeq(doc, LAMBDA e : /\ e.tag \in BlockTags
                              /\ e.hasString
                              /\ PatternSearch(data_type, e.string))

\* soup.find_all('table'): the tables of the document, in document order
TableIds(doc) == {doc[i].table : i \in DOMAIN doc} \ {0}

\* TableFind without the test of line 157: every table is taken
TableFind_Always(doc, tbl, data_type) == TRUE

\* table.find(text=re.compile(...)): some text node inside the table matches
TableFind(doc, tbl, data_type) ==
    \E i \in DOMAIN doc : /\ doc[i].table = tbl
                          /\ \E k \in DOMAIN doc[i].own : PatternSearch(data_type, doc[i].own[k])

\* table.find_all(['tr', 'td'])
TableRowsCells(doc, tbl) ==
    SelectSeq(doc, LAMBDA e : e.table = tbl /\ e.tag \in {"tr", "td"})

\* the loop over the tables (lines 155-158); tables are numbered in document order
RECURSIVE TableScan(_, _, _)
TableScan(doc, tbl, data_type) ==
    IF tbl \notin TableIds(doc) THEN <<>>
    ELSE (IF TableFind(doc, tbl, data_type) THEN TableRowsCells(doc, tbl) ELSE <<>>)
         \o TableScan(doc, tbl + 1, data_type)

\* elements, as built by lines 148-158
Elements(doc, data_type) == FindAllByText(doc, data_type) \o TableScan(doc, 1, data_type)

\* CollectText with the duplicates detected on the text as found, before it
\* is cleaned
RECURSIVE CollectText_RawDuplicates(_, _, _)
CollectText_RawDuplicates(elems, acc, seen) ==
    IF elems = <<>> THEN acc
    ELSE LET text == Head(elems).text
         IN IF text # <<>> /\ Len(Strip(text)) > MinTextLen /\ text \notin seen
            THEN CollectText_RawDuplicates(Tail(elems), Append(acc, clean_text(text)),
                                           seen \cup {text})
            ELSE CollectText_RawDuplicates(Tail(elems), acc, seen)

CollectText_OnRawText(elems, acc) == CollectText_RawDuplicates(elems, acc, {})

\* the loop of lines 161-166 over the elements, text_data being acc
RECURSIVE CollectText(_, _)
CollectText(elems, acc) ==
    IF elems = <<>> THEN acc
    ELSE LET text == Head(elems).text
             cleaned_text == clean_text(text)
         IN IF text # <<>> /\ Len(Strip(text)) > MinTextLen
            THEN (IF \E i \in DOMAIN acc : acc[i] = cleaned_text
                  THEN CollectText(Tail(elems), acc)
                  ELSE CollectText(Tail(elems), Append(acc, cleaned_text)))
            ELSE CollectText(Tail(elems), acc)

\* data['text_data'] after the scan of one document for one category
TextData(doc, data_type) == CollectText(Elements(doc, data_type), <<>>)

(***************************************************************************)
(* The documents the renderer may serve.                                   *)
(***************************************************************************)
TXT_capex_cell == <<"C", "a", "p", "e", "x", " ", "g", "r", "e", "w", " ", "1", "2", "%", " ", "Y", "o", "Y", " ", "t", "o", " ", "₹", "5", "0", "0", " ", "c", "r", "o", "r", "e">>
TXT_capex_up == <<"C", "a", "p", "e", "x", " ", "u", "p">>
TXT_revenue == <<"R", "e", "v", "e", "n", "u", "e", " ", " ", " ", "u", "p", "!", "!", " ", "1", "2", "%">>

\* <table><tr><td>Capex grew 12% YoY to ₹500 crore</td></tr></table>
DocCapexCell ==
    <<Elem("tr", <<>>, TRUE, TXT_capex_cell, TXT_capex_cell, 1),
      Elem("td", <<TXT_capex_cell>>, TRUE, TXT_capex_cell, TXT_capex_cell, 1)>>

\* <p>Revenue   up!! 12%</p>
DocRevenue == <<Elem("p", <<TXT_revenue>>, TRUE, TXT_revenue, TXT_revenue, 0)>>

\* <p>Capex up</p>
DocShort == <<Elem("p", <<TXT_capex_up>>, TRUE, TXT_capex_up, TXT_capex_up, 0)>>

Docs == {DocCapexCell, DocRevenue, DocShort}

(***************************************************************************)
(* Documents with tables, as the parser presents them.                     *)
(***************************************************************************)
TXT_capex_12 == <<"C", "a", "p", "e", "x", " ", "u", "p", " ", "1", "2", "%">>
TXT_capex_bang == <<"C", "a", "p", "e", "x", " ", " ", "u", "p", "!", "!", " ", "1", "2", "%">>
TXT_capex_flat == <<"C", "a", "p", "e", "x", " ", "f", "l", "a", "t">>
TXT_employees == <<"E", "m", "p", "l", "o", "y", "e", "e", "s", " ", "5", "0", "0", "0">>

RECURSIVE Concat(_)
Concat(seqs) == IF seqs = <<>> THEN <<>> ELSE Head(seqs) \o Concat(Tail(seqs))

\* <p>txt</p>
Para(txt) == <<Elem("p", <<txt>>, TRUE, txt, Strip(txt), 0)>>

\* <td>txt</td> or <th>txt</th> in table tbl
Cell(c, tbl) == Elem(c[1], <<c[2]>>, TRUE, c[2], Strip(c[2]), tbl)

\* <tr>cells</tr> in table tbl, followed by its cells: the .string of a row is
\* that of its only cell and None when it has several; get_text(strip=True)
\* joins the stripped texts of the cells
Row(cells, tbl) ==
    <<Elem("tr", <<>>, Len(cells) = 1, IF Len(cells) = 1 THEN cells[1][2] ELSE <<>>,
           Concat([i \in DOMAIN cells |-> Strip(cells[i][2])]), tbl)>>
        \o [i \in DOMAIN cells |-> Cell(cells[i], tbl)]

\* <table>rows</table>, the table number tbl
Table(rows, tbl) == Concat([i \in DOMAIN rows |-> Row(rows[i], tbl)])

\* the rows a table may have: data and header cells, with a text that matches
\* the capex pattern or not, longer than MinTextLen or not
Rows ==
    {<<<<"td", TXT_capex_12>>>>,
     <<<<"td", TXT_employees>>>>,
     <<<<"td", TXT_capex_flat>>>>,
     <<<<"th", TXT_employees>>, <<"td", TXT_capex_12>>>>,
     <<<<"th", TXT_capex_flat>>, <<"td", TXT_employees>>>>}

RECURSIVE RowLists(_)
RowLists(n) ==
    IF n = 0 THEN {<<>>}
    ELSE {Append(rs, r) : rs \in RowLists(n - 1), r \in Rows}

\* a document: possibly a paragraph, a table of 1..MaxRows rows and possibly a
\* second table of one row
ScanDocs ==
    {p \o Table(rows, 1) \o second :
        p \in {<<>>, Para(TXT_capex_bang)},
        rows \in UNION {RowLists(n) : n \in 1..MaxRows},
        second \in {<<>>, Table(<<<<<<"td", TXT_capex_12>>>>>>, 2),
                    Table(<<<<<<"td", TXT_employees>>>>>>, 2)}}

(***************************************************************************)
(* StockDataAgent.__init__ and the input of run.                           *)
(***************************************************************************)
\* the keys of self.target_sites, in insertion order
SiteNames == <<"moneycontrol", "screener", "investing_india", "economic_times", "tickertape">>

\* self.target_sites
target_sites ==
    [moneycontrol |-> <<"h", "t", "t", "p", "s", ":", "/", "/", "w", "w", "w", ".", "m", "o", "n", "e", "y", "c", "o", "n", "t", "r", "o", "l", ".", "c", "o", "m">>,
     screener |-> <<"h", "t", "t", "p", "s", ":", "/", "/", "w", "w", "w", ".", "s", "c", "r", "e", "e", "n", "e", "r", ".", "i", "n">>,
     investing_india |-> <<"h", "t", "t", "p", "s", ":", "/", "/", "i", "n", ".", "i", "n", "v", "e", "s", "t", "i", "n", "g", ".", "c", "o", "m">>,
     economic_times |-> <<"h", "t", "t", "p", "s", ":", "/", "/", "e", "c", "o", "n", "o", "m", "i", "c", "t", "i", "m", "e", "s", ".", "i", "n", "d", "i", "a", "t", "i", "m", "e", "s", ".", "c", "o", "m">>,
     tickertape |-> <<"h", "t", "t", "p", "s", ":", "/", "/", "w", "w", "w", ".", "t", "i", "c", "k", "e", "r", "t", "a", "p", "e", ".", "i", "n">>]

\* the sites the model visits
Sites == SubSeq(SiteNames, 1, NumSites)

\* self.max_retries
max_retries == 3

\* the companies list of __main__
MainCompanies ==
    <<<<"T", "C", "S">>,
      <<"R", "e", "l", "i", "a", "n", "c", "e", " ", "I", "n", "d", "u", "s", "t", "r", "i", "e", "s">>,
      <<"H", "D", "F", "C", " ", "B", "a", "n", "k">>>>

\* company names an agent used as a library is given
SaveCompanies == {MainCompanies[1], MainCompanies[3], <<"H", "D", "F", "C", "_", "B", "a", "n", "k">>}

\* the argument of run
companies == SubSeq(MainCompanies, 1, NumCompanies)

(***************************************************************************)
(* scrape_company: the search URL and the link filter.                     *)
(***************************************************************************)
STR_http == <<"h", "t", "t", "p">>
STR_company_info == <<"/", "s", "t", "o", "c", "k", "s", "/", "c", "o", "m", "p", "a", "n", "y", "-", "i", "n", "f", "o", "/">>
STR_company_path == <<"/", "c", "o", "m", "p", "a", "n", "y", "/">>
STR_search == <<"/", "s", "e", "a", "r", "c", "h", "?", "q", "=">>
STR_results == <<" ", "s", "t", "o", "c", "k", " ", "f", "i", "n", "a", "n", "c", "i", "a", "l", " ", "r", "e", "s", "u", "l", "t", "s">>

\* urllib.parse.quote on one character (safe = '/'); the reserved characters
\* that occur in a query built from a company name are the space and '&'
QuoteChar(c) ==
    IF IsWord(c) \/ c \in {".", "-", "~", "/"} THEN <<c>>
    ELSE IF c = " " THEN <<"%", "2", "0">>
    ELSE IF c = "&" THEN <<"%", "2", "6">>
    ELSE <<"%", "?", "?">>

RECURSIVE Quote(_)
Quote(s) == IF s = <<>> THEN <<>> ELSE QuoteChar(Head(s)) \o Quote(Tail(s))

\* lines 191-197
SearchUrl(site_name, company_name) ==
    LET base_url == target_sites[site_name]
    IN IF site_name = "moneycontrol"
       THEN base_url \o STR_company_info \o ReplaceChar(company_name, " ", "-")
       ELSE IF site_name = "screener"
       THEN base_url \o STR_company_path \o ReplaceChar(company_name, " ", "-")
       ELSE base_url \o STR_search \o Quote(company_name \o STR_results)

\* urljoin(base_url, href) for a base without a path and an href that is an
\* absolute path or a bare relative path
UrlJoin(base_url, href) ==
    IF href # <<>> /\ Head(href) = "/" THEN base_url \o href
    ELSE base_url \o <<"/">> \o href

\* the keyword list of lines 216-219
LinkKeywords(company_name) ==
    {<<"s", "t", "o", "c", "k">>,
     <<"c", "o", "m", "p", "a", "n", "y">>,
     <<"f", "i", "n", "a", "n", "c", "i", "a", "l">>,
     <<"s", "h", "a", "r", "e">>,
     <<"q", "u", "o", "t", "e">>,
     ReplaceChar(Lower(company_name), " ", "-")}

\* lines 211-213
ResolveHref(base_url, href) ==
    IF ~StartsWith(href, STR_http) THEN UrlJoin(base_url, href) ELSE href

\* the loop of lines 209-220
RECURSIVE RelevantUrls(_, _, _)
RelevantUrls(links, base_url, company_name) ==
    IF links = <<>> THEN <<>>
    ELSE LET href == ResolveHref(base_url, Head(links))
             rest == RelevantUrls(Tail(links), base_url, company_name)
         IN IF \E keyword \in LinkKeywords(company_name) : Contains(Lower(href), keyword)
            THEN <<href>> \o rest
            ELSE rest

\* relevant_urls[:3]
MaxLinks == 3

VARIABLE web         \* the web the run meets: "flaky", "rich", "slow" or "tables"

\* the href lists a search page may hold
HREF_about == <<"/", "a", "b", "o", "u", "t">>
HREF_quote == <<"/", "q", "u", "o", "t", "e", "/", "1">>
HREF_stock == <<"h", "t", "t", "p", "s", ":", "/", "/", "x", ".", "i", "n", "/", "S", "t", "o", "c", "k">>

HREF_tcs == <<"/", "t", "c", "s">>
HREF_share == <<"/", "S", "h", "a", "r", "e", "-", "P", "r", "i", "c", "e">>
HREF_results == <<"/", "f", "i", "n", "a", "n", "c", "i", "a", "l", "-", "r", "e", "s", "u", "l", "t", "s">>

\* on the unreliable web a search page holds at most one relevant address; on
\* the rich web it holds up to five, with more than MaxLinks relevant ones
FlakyLinkLists == {<<HREF_about>>, <<HREF_about, HREF_stock, HREF_stock>>}
RichLinkLists ==
    {<<HREF_quote, HREF_about>>,
     <<HREF_about, HREF_stock, HREF_tcs, HREF_quote, HREF_share, HREF_results>>}

LinkLists == IF web \in {"rich", "slow"} THEN RichLinkLists ELSE FlakyLinkLists

(***************************************************************************)
(* The state of one run.                                                   *)
(***************************************************************************)
VARIABLES
    pc,             \* the position of the single task
    ci,             \* index in companies of the company being processed
    si,             \* index in Sites of the site being processed
    li,             \* index in relevant_urls of the link being processed
    di,             \* index in Categories of the data_type being extracted
    relevant_urls,  \* scrape_company's relevant_urls for the current site
    url,            \* safe_goto's url
    retries,        \* safe_goto's retries
    caller,         \* who awaits safe_goto: "site" (line 199) or "extract" (line 125)
    result,         \* what safe_goto returned: None until it returns
    data,           \* what extract_data_from_url returned
    collected_urls, \* self.collected_urls
    data_points,    \* self.data_points
    browser,        \* the engine: "none", "open" or "closed"
    contexts,       \* the open browsing contexts, named by company index
    exc,            \* an exception is propagating out of scrape_company
    gotoLog,        \* renderer outcomes of the goto attempts of the current safe_goto call
    sleeps,         \* the delays slept inside the current safe_goto call
    linkGotos,      \* goto attempts made while the current link is processed
    page_doc,       \* the document page.content() returned since the last navigation, if any
    siteLog,        \* sites whose processing began for the current company
    failedSites,    \* sites of the current company skipped after a failure
    launches,       \* how often the engine was launched
    closes,         \* how often the engine was closed
    created,        \* how many browsing contexts were created
    links,          \* scrape_company's links: the hrefs found on the search page
    handed,         \* the URLs of the current site handed to extract_data_from_url so far
    files,          \* the files under the output root: path |-> content
    now,            \* the wall clock, in ticks of 1/TicksPerSecond second
    saves,          \* how often save_results was invoked
    text,           \* the text given to FinancialDataParser.clean_text
    cleaned,        \* what clean_text returned: None until it is called
    amount,         \* what extract_amount returned: None, or Some Decimal
    companyGotos    \* goto attempts made for the current company, counted on the slow web

vars == <<pc, ci, si, li, di, relevant_urls, url, retries, caller, result, data,
          collected_urls, data_points, browser, contexts, exc, gotoLog, sleeps,
          linkGotos, page_doc, siteLog, failedSites, launches, closes, created,
          links, handed, files, now, saves, text, cleaned, amount, web, companyGotos>>

siteVars == <<si, li, di, relevant_urls, siteLog, failedSites>>
gotoVars == <<url, retries, caller, result, gotoLog, sleeps>>
linkVars == <<linkGotos, page_doc>>
storeVars == <<collected_urls, data_points>>
engineVars == <<browser, contexts, exc, launches, closes, created>>
listVars == <<links, handed>>
outVars == <<files, now, saves>>
textVars == <<text, cleaned, amount>>

\* the state after StockDataAgent()
Constructed ==
    /\ ci = 0 /\ si = 0 /\ li = 0 /\ di = 0
    /\ relevant_urls = <<>>
    /\ url = <<>> /\ retries = 0 /\ caller = "none" /\ result = None
    /\ data = None
    /\ collected_urls = {}
    /\ data_points = [c \in Range(Categories) |-> <<>>]
    /\ browser = "none" /\ contexts = {} /\ exc = FALSE
    /\ gotoLog = <<>> /\ sleeps = <<>>
    /\ linkGotos = 0 /\ page_doc = None
    /\ siteLog = <<>> /\ failedSites = {}
    /\ launches = 0 /\ closes = 0 /\ created = 0
    /\ links = <<>> /\ handed = <<>>
    /\ companyGotos = 0

\* nothing was written and clean_text was not called
Untouched ==
    /\ files = <<>> /\ now = 0 /\ saves = 0
    /\ text = <<>> /\ cleaned = None /\ amount = None

\* __main__ before asyncio.run(agent.run(companies)), on the unreliable web
Init ==
    /\ pc = "run"
    /\ web = "flaky"
    /\ Constructed
    /\ Untouched

company_name == companies[ci]
\* site_name with the sites taken from the last to the first
site_name_Reversed == Sites[Len(Sites) + 1 - si]
site_name == Sites[si]
base_url == target_sites[site_name]
data_type == Categories[di]

(***************************************************************************)
(* run                                                                     *)
(***************************************************************************)
\* lines 245-249: p.chromium.launch either returns the engine or raises
Launch ==
    /\ pc = "run"
    /\ \E outcome \in {"ok", "error"} :
        IF outcome = "ok"
        THEN /\ browser' = "open"
             /\ launches' = launches + 1
             /\ ci' = 1
             /\ pc' = "run_loop"
        ELSE /\ pc' = "raised"
             /\ UNCHANGED <<browser, launches, ci>>
    /\ UNCHANGED <<siteVars, gotoVars, linkVars, storeVars, data, contexts, exc, closes, created>>
    /\ UNCHANGED <<listVars, web, companyGotos, outVars, textVars>>

\* lines 251-253 and 180-182: the next company; browser.new_context is outside
\* scrape_company's try, so its exception leaves scrape_company at once
NewContext ==
    /\ pc = "run_loop" /\ ci <= Len(companies)
    /\ \E outcome \in {"ok", "error"} :
        IF outcome = "ok"
        THEN /\ contexts' = contexts \cup {ci}
             /\ created' = created + 1
             /\ pc' = "new_page"
             /\ UNCHANGED exc
        ELSE /\ exc' = TRUE
             /\ pc' = "browser_close"
             /\ UNCHANGED <<contexts, created>>
    /\ companyGotos' = 0
    /\ UNCHANGED <<ci, siteVars, gotoVars, linkVars, storeVars, data, browser, launches, closes>>
    /\ UNCHANGED <<listVars, web, outVars, textVars>>

\* line 251: the list is exhausted
CompaniesDone ==
    /\ pc = "run_loop" /\ ci > Len(companies)
    /\ pc' = "browser_close"
    /\ UNCHANGED <<ci, siteVars, gotoVars, linkVars, storeVars, data, engineVars>>
    /\ UNCHANGED <<listVars, web, companyGotos, outVars, textVars>>

\* line 185: context.new_page(), inside try ... finally
NewPage ==
    /\ pc = "new_page"
    /\ \E outcome \in {"ok", "error"} :
        IF outcome = "ok"
        THEN pc' = "set_viewport" /\ UNCHANGED exc
        ELSE pc' = "context_close" /\ exc' = TRUE
    /\ UNCHANGED <<ci, siteVars, gotoVars, linkVars, storeVars, data, browser, contexts,
                   launches, closes, created>>
    /\ UNCHANGED <<listVars, web, companyGotos, outVars, textVars>>

\* line 186: page.set_viewport_size(...), then the loop over the sites begins
SetViewport ==
    /\ pc = "set_viewport"
    /\ \E outcome \in {"ok", "error"} :
        IF outcome = "ok"
        THEN /\ pc' = "site_loop"
             /\ si' = 1
             /\ UNCHANGED exc
        ELSE /\ pc' = "context_close"
             /\ exc' = TRUE
             /\ UNCHANGED si
    /\ UNCHANGED <<ci, li, di, relevant_urls, siteLog, failedSites, gotoVars, linkVars, storeVars, data, browser,
                   contexts, launches, closes, created>>
    /\ UNCHANGED <<listVars, web, companyGotos, outVars, textVars>>

\* ContextClose with context.close() after the loop instead of in a finally
\* clause: an exception passes it by
ContextClose_NoFinally ==
    /\ pc = "context_close"
    /\ contexts' = IF exc THEN contexts ELSE contexts \ {ci}
    /\ IF exc
       THEN pc' = "browser_close" /\ UNCHANGED ci
       ELSE pc' = "run_loop" /\ ci' = ci + 1
    /\ si' = 0 /\ siteLog' = <<>> /\ failedSites' = {}
    /\ UNCHANGED <<li, di, relevant_urls, gotoVars, linkVars, storeVars, data, browser, exc,
                   launches, closes, created>>
    /\ UNCHANGED <<listVars, web, companyGotos, outVars, textVars>>

\* lines 240-241 and 254-255: the finally clause of scrape_company; a pending
\* exception goes on to run's finally, otherwise run takes the next company
ContextClose ==
    /\ pc = "context_close"
    /\ contexts' = contexts \ {ci}
    /\ IF exc
       THEN pc' = "browser_close" /\ UNCHANGED ci
       ELSE pc' = "run_loop" /\ ci' = ci + 1
    /\ si' = 0 /\ siteLog' = <<>> /\ failedSites' = {}
    /\ UNCHANGED <<li, di, relevant_urls, gotoVars, linkVars, storeVars, data, browser, exc,
                   launches, closes, created>>
    /\ UNCHANGED <<listVars, web, companyGotos, outVars, textVars>>

\* BrowserClose with browser.close() after the loop instead of in a finally
\* clause: an exception passes it by
BrowserClose_NoFinally ==
    /\ pc = "browser_close"
    /\ browser' = IF exc THEN browser ELSE "closed"
    /\ closes' = IF exc THEN closes ELSE closes + 1
    /\ pc' = IF exc THEN "raised" ELSE "done"
    /\ UNCHANGED <<ci, siteVars, gotoVars, linkVars, storeVars, data, contexts, exc,
                   launches, created>>
    /\ UNCHANGED <<listVars, web, companyGotos, outVars, textVars>>

\* lines 256-259: the finally clause of run, then return or re-raise
BrowserClose ==
    /\ pc = "browser_close"
    /\ browser' = "closed"
    /\ closes' = closes + 1
    /\ pc' = IF exc THEN "raised" ELSE "done"
    /\ UNCHANGED <<ci, siteVars, gotoVars, linkVars, storeVars, data, contexts, exc,
                   launches, created>>
    /\ UNCHANGED <<listVars, web, companyGotos, outVars, textVars>>

(***************************************************************************)
(* safe_goto                                                               *)
(***************************************************************************)
\* the call safe_goto(page, u) with retries = 0
CallGoto(u, who) ==
    /\ url' = u
    /\ retries' = 0
    /\ caller' = who
    /\ result' = None
    /\ gotoLog' = <<>>
    /\ sleeps' = <<>>
    /\ page_doc' = None
    /\ pc' = "goto"

\* SafeGotoBody with `retries <= self.max_retries` at line 109
SafeGotoBody_RetryOnceMore(outcome) ==
    /\ gotoLog' = Append(gotoLog, outcome)
    /\ IF outcome = "ok"
       THEN /\ sleeps' = Append(sleeps, 2)
            /\ result' = Some(TRUE)
            /\ pc' = "goto_ret"
            /\ UNCHANGED retries
       ELSE IF outcome = "timeout"
       THEN IF retries <= max_retries
            THEN /\ sleeps' = Append(sleeps, 2 * (retries + 1))
                 /\ retries' = retries + 1
                 /\ pc' = "goto"
                 /\ UNCHANGED result
            ELSE /\ result' = Some(FALSE)
                 /\ pc' = "goto_ret"
                 /\ UNCHANGED <<sleeps, retries>>
       ELSE /\ result' = Some(FALSE)
            /\ pc' = "goto_ret"
            /\ UNCHANGED <<sleeps, retries>>

\* SafeGotoBody without the handler of lines 115-117: the call ends without a
\* returned value
SafeGotoBody_NoGenericHandler(outcome) ==
    /\ gotoLog' = Append(gotoLog, outcome)
    /\ IF outcome = "ok"
       THEN /\ sleeps' = Append(sleeps, 2)
            /\ result' = Some(TRUE)
            /\ pc' = "goto_ret"
            /\ UNCHANGED retries
       ELSE IF outcome = "timeout"
       THEN IF retries < max_retries
            THEN /\ sleeps' = Append(sleeps, 2 * (retries + 1))
                 /\ retries' = retries + 1
                 /\ pc' = "goto"
                 /\ UNCHANGED result
            ELSE /\ result' = Some(FALSE)
                 /\ pc' = "goto_ret"
                 /\ UNCHANGED <<sleeps, retries>>
       ELSE /\ pc' = "goto_ret"
            /\ UNCHANGED <<result, sleeps, retries>>

\* SafeGotoBody with `except (PlaywrightTimeout, Exception)` at line 108: every
\* failure is retried
SafeGotoBody_RetryAnyError(outcome) ==
    /\ gotoLog' = Append(gotoLog, outcome)
    /\ IF outcome = "ok"
       THEN /\ sleeps' = Append(sleeps, 2)
            /\ result' = Some(TRUE)
            /\ pc' = "goto_ret"
            /\ UNCHANGED retries
       ELSE IF retries < max_retries
            THEN /\ sleeps' = Append(sleeps, 2 * (retries + 1))
                 /\ retries' = retries + 1
                 /\ pc' = "goto"
                 /\ UNCHANGED result
            ELSE /\ result' = Some(FALSE)
                 /\ pc' = "goto_ret"
                 /\ UNCHANGED <<sleeps, retries>>

\* SafeGotoBody without the pause of line 106 after a successful goto
SafeGotoBody_NoSettle(outcome) ==
    /\ gotoLog' = Append(gotoLog, outcome)
    /\ IF outcome = "ok"
       THEN /\ result' = Some(TRUE)
            /\ pc' = "goto_ret"
            /\ UNCHANGED <<sleeps, retries>>
       ELSE IF outcome = "timeout"
       THEN IF retries < max_retries
            THEN /\ sleeps' = Append(sleeps, 2 * (retries + 1))
                 /\ retries' = retries + 1
                 /\ pc' = "goto"
                 /\ UNCHANGED result
            ELSE /\ result' = Some(FALSE)
                 /\ pc' = "goto_ret"
                 /\ UNCHANGED <<sleeps, retries>>
       ELSE /\ result' = Some(FALSE)
            /\ pc' = "goto_ret"
            /\ UNCHANGED <<sleeps, retries>>

\* one pass through lines 102-117: a goto attempt and what follows it, up to the
\* return or the recursive call
SafeGotoBody(outcome) ==
    /\ gotoLog' = Append(gotoLog, outcome)
    /\ IF outcome = "ok"
       THEN /\ sleeps' = Append(sleeps, 2)
            /\ result' = Some(TRUE)
            /\ pc' = "goto_ret"
            /\ UNCHANGED retries
       ELSE IF outcome = "timeout"
       THEN IF retries < max_retries
            THEN /\ sleeps' = Append(sleeps, 2 * (retries + 1))
                 /\ retries' = retries + 1
                 /\ pc' = "goto"
                 /\ UNCHANGED result
            ELSE /\ result' = Some(FALSE)
                 /\ pc' = "goto_ret"
                 /\ UNCHANGED <<sleeps, retries>>
       ELSE /\ result' = Some(FALSE)
            /\ pc' = "goto_ret"
            /\ UNCHANGED <<sleeps, retries>>

\* what page.goto does: it returns, times out (line 107) or raises another
\* exception (line 115)
GotoOutcomes == IF web = "rich" THEN {"ok"} ELSE {"ok", "timeout", "error"}

safe_goto ==
    /\ pc = "goto"
    /\ \E outcome \in GotoOutcomes : SafeGotoBody(outcome)
    /\ linkGotos' = IF caller = "extract" /\ web # "slow" THEN linkGotos + 1 ELSE linkGotos
    /\ companyGotos' = IF web = "slow" THEN companyGotos + 1 ELSE companyGotos
    /\ UNCHANGED <<ci, siteVars, url, caller, page_doc, storeVars, data, engineVars>>
    /\ UNCHANGED <<listVars, web, outVars, textVars>>

(***************************************************************************)
(* scrape_company: the loop over the sites                                 *)
(***************************************************************************)
\* lines 188-199: the next site; its search URL is handed to safe_goto
SiteBegin ==
    /\ pc = "site_loop" /\ si <= Len(Sites)
    /\ siteLog' = Append(siteLog, site_name)
    /\ CallGoto(SearchUrl(site_name, company_name), "site")
    /\ UNCHANGED <<ci, si, li, di, relevant_urls, failedSites, linkGotos, storeVars, data,
                   engineVars>>
    /\ UNCHANGED <<listVars, web, companyGotos, outVars, textVars>>

\* line 188: no site is left; the try block ends normally
SitesDone ==
    /\ pc = "site_loop" /\ si > Len(Sites)
    /\ pc' = "context_close"
    /\ UNCHANGED <<ci, siteVars, gotoVars, linkVars, storeVars, data, engineVars>>
    /\ UNCHANGED <<listVars, web, companyGotos, outVars, textVars>>

\* SiteSkipped without `continue` and without the handler of lines 236-238:
\* the failure of a site ends the loop over the sites
SiteSkipped_Propagates ==
    /\ failedSites' = failedSites \cup {si}
    /\ exc' = TRUE
    /\ pc' = "context_close"
    /\ UNCHANGED si

\* what scrape_company does when the processing of a site stops early:
\* `continue` at line 200, or the handler of lines 236-238
SiteSkipped ==
    /\ failedSites' = failedSites \cup {si}
    /\ si' = si + 1
    /\ pc' = "site_loop"
    /\ UNCHANGED exc

\* lines 199-200: safe_goto returned to scrape_company
SearchReturned ==
    /\ pc = "goto_ret" /\ caller = "site"
    /\ IF result = Some(TRUE)
       THEN /\ pc' = "site_links"
            /\ UNCHANGED <<si, failedSites, exc>>
       ELSE SiteSkipped
    /\ url' = <<>> /\ retries' = 0 /\ caller' = "none" /\ result' = None
    /\ gotoLog' = <<>> /\ sleeps' = <<>>
    /\ UNCHANGED <<ci, li, di, relevant_urls, siteLog, linkVars, storeVars, data, browser,
                   contexts, launches, closes, created>>
    /\ UNCHANGED <<listVars, web, companyGotos, outVars, textVars>>

\* lines 202-220: page.content() either raises or yields a page with links
SiteLinks ==
    /\ pc = "site_links"
    /\ \/ /\ SiteSkipped
          /\ UNCHANGED <<relevant_urls, li, links>>
       \/ \E hrefs \in LinkLists :
            /\ links' = hrefs
            /\ relevant_urls' = RelevantUrls(hrefs, base_url, company_name)
            /\ li' = 1
            /\ pc' = "link_loop"
            /\ UNCHANGED <<si, failedSites, exc>>
    /\ UNCHANGED <<ci, di, siteLog, gotoVars, linkVars, storeVars, data, browser, contexts,
                   launches, closes, created, handed>>
    /\ UNCHANGED <<web, companyGotos, outVars, textVars>>

\* LinkBegin with relevant_urls[:4]
LinkBegin_FourLinks ==
    /\ pc = "link_loop" /\ li <= Len(relevant_urls) /\ li <= MaxLinks + 1
    /\ di' = 1
    /\ linkGotos' = 0
    /\ handed' = Append(handed, relevant_urls[li])
    /\ pc' = "extract_call"
    /\ UNCHANGED links
    /\ UNCHANGED <<ci, si, li, relevant_urls, siteLog, failedSites, gotoVars, page_doc,
                   storeVars, data, engineVars>>
    /\ UNCHANGED <<web, companyGotos, outVars, textVars>>

\* lines 223-224: the next of the first MaxLinks links
LinkBegin ==
    /\ pc = "link_loop" /\ li <= Len(relevant_urls) /\ li <= MaxLinks
    /\ di' = 1
    /\ linkGotos' = 0
    /\ handed' = Append(handed, relevant_urls[li])
    /\ pc' = "extract_call"
    /\ UNCHANGED links
    /\ UNCHANGED <<ci, si, li, relevant_urls, siteLog, failedSites, gotoVars, page_doc,
                   storeVars, data, engineVars>>
    /\ UNCHANGED <<web, companyGotos, outVars, textVars>>

\* line 223: no link is left; the next site
LinksDone ==
    /\ pc = "link_loop" /\ ~(li <= Len(relevant_urls) /\ li <= MaxLinks)
    /\ si' = si + 1
    /\ li' = 0
    /\ relevant_urls' = <<>>
    /\ links' = <<>> /\ handed' = <<>>
    /\ pc' = "site_loop"
    /\ UNCHANGED <<ci, di, siteLog, failedSites, gotoVars, linkVars, storeVars, data,
                   engineVars>>
    /\ UNCHANGED <<web, companyGotos, outVars, textVars>>

(***************************************************************************)
(* extract_data_from_url                                                   *)
(***************************************************************************)
\* AlreadyCollected without the test of lines 121-122
AlreadyCollected_Never(u) == FALSE

\* lines 121-122: is the call answered without navigation?
AlreadyCollected(u) == u \in collected_urls

\* lines 225 and 119-125: the call for the current link and data_type
ExtractCall ==
    /\ pc = "extract_call"
    /\ IF AlreadyCollected(relevant_urls[li])
       THEN /\ data' = None
            /\ pc' = "extract_ret"
            /\ UNCHANGED <<gotoVars, page_doc>>
       ELSE /\ CallGoto(relevant_urls[li], "extract")
            /\ UNCHANGED data
    /\ UNCHANGED <<ci, siteVars, linkGotos, storeVars, engineVars>>
    /\ UNCHANGED <<listVars, web, companyGotos, outVars, textVars>>

\* lines 125-126: safe_goto returned to extract_data_from_url
FetchReturned ==
    /\ pc = "goto_ret" /\ caller = "extract"
    /\ IF result = Some(TRUE)
       THEN pc' = "extract_content" /\ UNCHANGED data
       ELSE pc' = "extract_ret" /\ data' = None
    /\ retries' = 0 /\ caller' = "none" /\ result' = None
    /\ gotoLog' = <<>> /\ sleeps' = <<>>
    /\ UNCHANGED <<ci, siteVars, url, linkVars, storeVars, engineVars>>
    /\ UNCHANGED <<listVars, web, companyGotos, outVars, textVars>>

\* ExtractResult without line 169: the URL of a record is not remembered
ExtractResult_NeverCollect(u, text_data) ==
    /\ UNCHANGED collected_urls
    /\ data' = IF text_data # <<>> THEN Some([url |-> u, text_data |-> text_data]) ELSE None

\* ExtractResult that marks the URL as collected whatever was found
ExtractResult_CollectAlways(u, text_data) ==
    /\ collected_urls' = collected_urls \cup {u}
    /\ data' = IF text_data # <<>> THEN Some([url |-> u, text_data |-> text_data]) ELSE None

\* ExtractResult without the test of line 168: the record is returned as built
ExtractResult_RecordAlways(u, text_data) ==
    /\ collected_urls' = IF text_data # <<>> THEN collected_urls \cup {u} ELSE collected_urls
    /\ data' = Some([url |-> u, text_data |-> text_data])

\* lines 168-172: the record or None, and the update of collected_urls
ExtractResult(u, text_data) ==
    IF text_data # <<>>
    THEN /\ collected_urls' = collected_urls \cup {u}
         /\ data' = Some([url |-> u, text_data |-> text_data])
    ELSE /\ data' = None
         /\ UNCHANGED collected_urls

\* what page.content() may hold at address u: anything on the unreliable web;
\* on the rich web the page of an address is always the same
PageDocs(u) ==
    IF web = "slow" THEN {DocShort}
    ELSE IF web = "tables" THEN ScanDocs
    ELSE IF web = "rich"
    THEN IF Contains(Lower(u), <<"s", "t", "o", "c", "k">>) THEN {DocCapexCell}
         ELSE IF Contains(Lower(u), <<"q", "u", "o", "t", "e">>) THEN {DocRevenue}
         ELSE IF Contains(Lower(u), <<"s", "h", "a", "r", "e">>) THEN {DocCapexCell}
         ELSE {DocShort}
    ELSE Docs

\* lines 128-176: page.content() either raises (caught at line 174) or yields a
\* document, which is scanned for the data_type
ExtractContent ==
    /\ pc = "extract_content"
    /\ \/ /\ web \in {"flaky", "slow"}
          /\ data' = None
          /\ UNCHANGED <<collected_urls, page_doc>>
       \/ \E doc \in PageDocs(url) :
            /\ ExtractResult(url, TextData(doc, data_type))
            /\ page_doc' = Some(doc)
    /\ pc' = "extract_ret"
    /\ url' = <<>>
    /\ UNCHANGED <<ci, siteVars, retries, caller, result, gotoLog, sleeps, linkGotos,
                   data_points, engineVars>>
    /\ UNCHANGED <<listVars, web, companyGotos, outVars, textVars>>

\* Accumulate without the test of line 226: an absent result is recorded as a
\* record without fragments
Accumulate_Placeholder(d) ==
    data_points' = [data_points EXCEPT ![data_type] =
        Append(@, [company |-> company_name, source |-> site_name,
                   url |-> relevant_urls[li],
                   text_data |-> IF d # None THEN d[1].text_data ELSE <<>>])]

\* Accumulate with insert(0, ...) in the place of append
Accumulate_Prepend(d) ==
    IF d # None
    THEN data_points' = [data_points EXCEPT ![data_type] =
            <<[company |-> company_name, source |-> site_name,
               url |-> d[1].url, text_data |-> d[1].text_data]>> \o @]
    ELSE UNCHANGED data_points

\* lines 226-231: the record, tagged with company and site, is appended
Accumulate(d) ==
    IF d # None
    THEN data_points' = [data_points EXCEPT ![data_type] =
            Append(@, [company |-> company_name, source |-> site_name,
                       url |-> d[1].url, text_data |-> d[1].text_data])]
    ELSE UNCHANGED data_points

\* ExtractReturned with a retry of the extraction when it returned None for a
\* URL that is not collected
ExtractReturned_RetryOnNone ==
    /\ pc = "extract_ret"
    /\ Accumulate(data)
    /\ data' = None
    /\ url' = <<>>
    /\ IF data = None /\ relevant_urls[li] \notin collected_urls
       THEN di' = di /\ pc' = "extract_call"
       ELSE IF di < Len(Categories)
       THEN di' = di + 1 /\ pc' = "extract_call"
       ELSE di' = di /\ pc' = "link_sleep"
    /\ UNCHANGED <<ci, si, li, relevant_urls, siteLog, failedSites, retries, caller, result,
                   gotoLog, sleeps, linkVars, collected_urls, engineVars>>
    /\ UNCHANGED <<listVars, web, companyGotos, outVars, textVars>>

\* lines 224-231: extract_data_from_url returned to scrape_company
ExtractReturned ==
    /\ pc = "extract_ret"
    /\ Accumulate(data)
    /\ data' = None
    /\ url' = <<>>
    /\ IF di < Len(Categories)
       THEN di' = di + 1 /\ pc' = "extract_call"
       ELSE di' = di /\ pc' = "link_sleep"
    /\ UNCHANGED <<ci, si, li, relevant_urls, siteLog, failedSites, retries, caller, result,
                   gotoLog, sleeps, linkVars, collected_urls, engineVars>>
    /\ UNCHANGED <<listVars, web, companyGotos, outVars, textVars>>

\* lines 233-234: the delay after a link, then the next link
LinkSleep ==
    /\ pc = "link_sleep"
    /\ li' = li + 1
    /\ di' = 0
    /\ linkGotos' = 0
    /\ pc' = "link_loop"
    /\ UNCHANGED <<ci, si, relevant_urls, siteLog, failedSites, gotoVars, page_doc, storeVars,
                   data, engineVars>>
    /\ UNCHANGED <<listVars, web, companyGotos, outVars, textVars>>

(***************************************************************************)
(* save_results                                                            *)
(***************************************************************************)
\* line 264: strftime('%Y%m%d_%H%M%S') keeps the whole seconds of the clock
timestamp(t) == t \div TicksPerSecond

\* line 267: the companies that have a record in some category
CompaniesOf(dp) ==
    UNION {{dp[c][i].company : i \in DOMAIN dp[c]} : c \in Range(Categories)}

\* line 272: the directory of a company under the output root
company_dir(company) == ReplaceChar(company, " ", "_")

\* lines 276-282: the aggregate filtered for one company
company_data(dp, company) ==
    [c \in Range(Categories) |-> SelectSeq(dp[c], LAMBDA item : item.company = company)]

\* lines 285 and 292: the paths written for one company: the snapshot file and
\* one tabular file for every category with a record
PathsOf(dp, company, ts) ==
    {<<company_dir(company), "raw_data", ts>>}
        \cup {<<company_dir(company), c, ts>> :
                 c \in {d \in Range(Categories) : company_data(dp, company)[d] # <<>>}}

\* lines 285-294: the files after the loop body for one company; open(..., 'w')
\* and to_csv create the file or replace its content
WriteCompany(fs, dp, company, ts) ==
    [p \in DOMAIN fs \cup PathsOf(dp, company, ts) |->
        IF p \in PathsOf(dp, company, ts)
        THEN IF p[2] = "raw_data" THEN company_data(dp, company)
                                  ELSE company_data(dp, company)[p[2]]
        ELSE fs[p]]

\* line 270: the loop over the companies, in the order the set yields them
RECURSIVE WriteAll(_, _, _, _)
WriteAll(fs, dp, order, ts) ==
    IF order = <<>> THEN fs
    ELSE WriteAll(WriteCompany(fs, dp, Head(order), ts), dp, Tail(order), ts)

\* the orders in which a Python set may yield its elements
Orders(S) ==
    {o \in [1..Cardinality(S) -> S] : \A i, j \in 1..Cardinality(S) : o[i] = o[j] => i = j}

\* lines 261-296, as one step that takes a tick of the clock
save_results ==
    /\ now < MaxNow
    /\ \E order \in Orders(CompaniesOf(data_points)) :
          files' = WriteAll(files, data_points, order, timestamp(now))
    /\ now' = now + 1
    /\ saves' = saves + 1

(***************************************************************************)
(* __main__                                                                *)
(***************************************************************************)
\* lines 311-312: run returned, save_results is called
MainSave ==
    /\ pc = "done"
    /\ save_results
    /\ pc' = "saved"
    /\ UNCHANGED <<ci, siteVars, gotoVars, linkVars, storeVars, data, engineVars, listVars,
                   web, companyGotos, textVars>>

\* line 311: the exception that left run leaves asyncio.run and ends the
\* program; line 312 is not reached
MainAbort ==
    /\ pc = "raised"
    /\ pc' = "exited"
    /\ UNCHANGED <<ci, siteVars, gotoVars, linkVars, storeVars, data, engineVars, listVars,
                   web, companyGotos, outVars, textVars>>

(***************************************************************************)
(* An agent used as a library: records come in and save_results is called  *)
(* any number of times.                                                    *)
(***************************************************************************)
NumRecords(dp) == Len(dp["growth_rate"]) + Len(dp["performance"])
                    + Len(dp["marginal_changes"]) + Len(dp["capex"])

\* the addresses the records written in this way come from
HarvestUrl(n) == HREF_stock \o <<"/">> \o <<DigitChars[n + 1]>>

\* lines 226-231: a record of some company is appended to a category
Harvest ==
    /\ pc \in {"idle", "saved"}
    /\ NumRecords(data_points) < MaxRecords
    /\ \E company \in SaveCompanies, c \in Range(Categories) :
          LET u == HarvestUrl(NumRecords(data_points))
          IN /\ data_points' = [data_points EXCEPT ![c] =
                    Append(@, [company |-> company, source |-> Sites[1], url |-> u,
                               text_data |-> <<clean_text(TXT_capex_cell)>>])]
             /\ collected_urls' = collected_urls \cup {u}
    /\ pc' = "idle"
    /\ UNCHANGED <<ci, siteVars, gotoVars, linkVars, data, engineVars, listVars, web, companyGotos,
                   outVars, textVars>>

\* a call of save_results
WriterSave ==
    /\ pc \in {"idle", "saved"}
    /\ saves < MaxSaves
    /\ save_results
    /\ pc' = "saved"
    /\ UNCHANGED <<ci, siteVars, gotoVars, linkVars, storeVars, data, engineVars, listVars,
                   web, companyGotos, textVars>>

\* time passes
Tick ==
    /\ pc \in {"idle", "saved"}
    /\ now < MaxNow
    /\ now' = now + 1
    /\ UNCHANGED <<pc, ci, siteVars, gotoVars, linkVars, storeVars, data, engineVars,
                   listVars, web, companyGotos, files, saves, textVars>>

(***************************************************************************)
(* FinancialDataParser.clean_text, called on a text and on its own result. *)
(***************************************************************************)
\* the characters of the texts: a word character, two kinds of whitespace,
\* a character that clean_text removes and two that it keeps
TextChars == {"a", " ", "\t", "!", "%", "₹"}

RECURSIVE TextsOfLen(_)
TextsOfLen(n) ==
    IF n = 0 THEN {<<>>}
    ELSE {Append(t, c) : t \in TextsOfLen(n - 1), c \in TextChars}

Texts == UNION {TextsOfLen(n) : n \in 0..MaxTextLen}

\* line 165: cleaned_text = FinancialDataParser.clean_text(text)
CallCleanText ==
    /\ pc = "clean"
    /\ cleaned' = Some(clean_text(text))
    /\ pc' = "cleaned"
    /\ UNCHANGED <<ci, siteVars, gotoVars, linkVars, storeVars, data, engineVars, listVars,
                   web, companyGotos, outVars, text, amount>>

\* the result is given to clean_text again
CleanAgain ==
    /\ pc = "cleaned"
    /\ text' = cleaned[1]
    /\ cleaned' = None
    /\ pc' = "clean"
    /\ UNCHANGED <<ci, siteVars, gotoVars, linkVars, storeVars, data, engineVars, listVars,
                   web, companyGotos, outVars, amount>>

(***************************************************************************)
(* The texts given to extract_amount: a currency sign or none, a number    *)
(* or none, and up to MaxWords words before or after the number.           *)
(***************************************************************************)
AmountLeads == {<<>>, <<"₹">>}

AmountNumbers ==
    {<<>>,
     <<"1", "2", ".", "5">>,
     <<"1", ".", "2">>,
     <<"-", "3">>,
     <<"1", ",", "2", "0", "0">>,
     <<"7", ".">>}

AmountWords ==
    <<<<"c", "r">>,
      <<" ", "c", "r", "o", "r", "e">>,
      <<" ", "l", "a", "k", "h">>,
      <<"l", "a", "k", "h", "s">>,
      <<" ", "m", "i", "l", "l", "i", "o", "n">>,
      <<"M", "N">>,
      <<" ", "b", "i", "l", "l", "i", "o", "n">>,
      <<"b", "n">>,
      <<"I", "n", "c", "r", "e", "a", "s", "e">>,
      <<"-", "4">>>>

RECURSIVE WordLists(_)
WordLists(n) ==
    IF n = 0 THEN {<<>>}
    ELSE {Append(ws, w) : ws \in WordLists(n - 1), w \in DOMAIN AmountWords}

AmountTexts ==
    LET wording == {Concat([i \in DOMAIN ws |-> AmountWords[ws[i]]]) :
                        ws \in UNION {WordLists(n) : n \in 0..MaxWords}}
    IN {lead \o number \o w : lead \in AmountLeads, number \in AmountNumbers, w \in wording}
       \cup {w \o lead \o number : lead \in AmountLeads, number \in AmountNumbers, w \in wording}

\* amount = FinancialDataParser.extract_amount(text)
CallExtractAmount ==
    /\ pc = "amount"
    /\ amount' = extract_amount(text)
    /\ pc' = "amounted"
    /\ UNCHANGED <<ci, siteVars, gotoVars, linkVars, storeVars, data, engineVars, listVars,
                   web, companyGotos, outVars, text, cleaned>>

(***************************************************************************)
(* The specification.                                                      *)
(***************************************************************************)
Next ==
    \/ Launch
    \/ NewContext
    \/ CompaniesDone
    \/ NewPage
    \/ SetViewport
    \/ SiteBegin
    \/ SitesDone
    \/ safe_goto
    \/ SearchReturned
    \/ SiteLinks
    \/ LinkBegin
    \/ LinksDone
    \/ ExtractCall
    \/ FetchReturned
    \/ ExtractContent
    \/ ExtractReturned
    \/ LinkSleep
    \/ ContextClose
    \/ BrowserClose
    \/ MainSave
    \/ MainAbort

Spec == Init /\ [][Next]_vars

\* the same program on the rich web
InitRich ==
    /\ pc = "run"
    /\ web = "rich"
    /\ Constructed
    /\ Untouched

SpecRich == InitRich /\ [][Next]_vars

\* the same program on the slow web: every address may time out and no page
\* holds a fragment, so that no extraction is spared; the event loop resumes
\* the task whenever the call it awaits has returned
InitSlow ==
    /\ pc = "run"
    /\ web = "slow"
    /\ Constructed
    /\ Untouched

SpecSlow == InitSlow /\ [][Next]_vars /\ WF_vars(Next)

\* extract_data_from_url for any data_type, at the point where the page was
\* fetched and is read, on a web whose pages hold tables
InitScan ==
    /\ pc = "extract_content"
    /\ web = "tables"
    /\ ci = 1 /\ si = 1 /\ li = 1 /\ di \in DOMAIN Categories
    /\ links = <<HREF_stock>> /\ relevant_urls = <<HREF_stock>> /\ handed = <<HREF_stock>>
    /\ url = HREF_stock /\ retries = 0 /\ caller = "none" /\ result = None
    /\ data = None
    /\ collected_urls = {}
    /\ data_points = [c \in Range(Categories) |-> <<>>]
    /\ browser = "open" /\ contexts = {1} /\ exc = FALSE
    /\ gotoLog = <<>> /\ sleeps = <<>>
    /\ linkGotos = 1 /\ page_doc = None
    /\ siteLog = <<Sites[1]>> /\ failedSites = {}
    /\ launches = 1 /\ closes = 0 /\ created = 1
    /\ companyGotos = 0
    /\ Untouched

NextScan == ExtractContent

SpecScan == InitScan /\ [][NextScan]_vars

\* an agent whose aggregate is filled and saved by its user
InitSave ==
    /\ pc = "idle"
    /\ web = "flaky"
    /\ Constructed
    /\ Untouched

NextSave ==
    \/ Harvest
    \/ WriterSave
    \/ Tick

SpecSave == InitSave /\ [][NextSave]_vars

\* clean_text on every text of at most MaxTextLen characters
InitClean ==
    /\ pc = "clean"
    /\ web = "flaky"
    /\ Constructed
    /\ files = <<>> /\ now = 0 /\ saves = 0
    /\ text \in Texts
    /\ cleaned = None
    /\ amount = None

NextClean ==
    \/ CallCleanText
    \/ CleanAgain

SpecClean == InitClean /\ [][NextClean]_vars

\* extract_amount applied to a text
InitAmount ==
    /\ pc = "amount"
    /\ web = "flaky"
    /\ Constructed
    /\ files = <<>> /\ now = 0 /\ saves = 0
    /\ text \in AmountTexts
    /\ cleaned = None
    /\ amount = None

NextAmount == CallExtractAmount

SpecAmount == InitAmount /\ [][NextAmount]_vars

(***************************************************************************)
(* Properties.                                                             *)
(***************************************************************************)
AllTimeouts(log) == \A i \in DOMAIN log : log[i] = "timeout"

\* the backoff delays 2*1, 2*2, ..., 2*n
Backoffs(n) == [i \in 1..n |-> 2 * i]

\* all records of the aggregate whose url is u, as (category, index) pairs
RecordsOf(u) ==
    UNION {{<<c, i>> : i \in {j \in DOMAIN data_points[c] : data_points[c][j].url = u}} :
           c \in Range(Categories)}

\* the task is inside scrape_company, after new_context returned
InCompany == pc \notin {"run", "run_loop", "browser_close", "done", "raised", "saved",
                         "exited", "idle", "clean"}

\* the task is processing a link (lines 224-234)
InLink == pc \in {"extract_call", "goto", "goto_ret", "extract_content", "extract_ret",
                  "link_sleep"} /\ di >= 1 /\ caller # "site"

C2_DedupWithoutNavigation ==
    [][(pc = "extract_call" /\ RecordsOf(relevant_urls[li]) # {}) =>
            /\ pc' = "extract_ret"
            /\ data' = None
            /\ linkGotos' = linkGotos
            /\ gotoLog' = gotoLog
            /\ UNCHANGED <<collected_urls, data_points>>]_vars

\* a call for a URL that an earlier company recorded has returned None
C2_Witness ==
    /\ pc = "extract_ret"
    /\ data = None
    /\ linkGotos = 0
    /\ \E r \in RecordsOf(relevant_urls[li]) :
            /\ data_points[r[1]][r[2]].company # company_name
            /\ r[1] # data_type

\* C3 (as claimed): when a link has been processed and a document was fetched
\* for it, every category whose pattern has a surviving fragment in that
\* document holds exactly one record of the link's URL.
C3_RecordPerMatchingCategory ==
    (pc = "link_sleep" /\ linkGotos > 0 /\ page_doc # None) =>
        \A c \in Range(Categories) :
            TextData(page_doc[1], c) # <<>> =>
                Cardinality({r \in RecordsOf(relevant_urls[li]) : r[1] = c}) = 1

\* C4 (as claimed): the goto attempts made while one link is processed never
\* exceed max_retries + 1.
C4_OneFetchPerLink == InLink => linkGotos <= max_retries + 1

\* C4 (amended): while one link is processed, each of the four categories costs
\* at most one bounded fetch, so after the call for the di-th category the goto
\* attempts number at most di * (max_retries + 1), 4 * (max_retries + 1) in all.
C4_OneFetchPerCategory ==
    InLink =>
        /\ linkGotos <= di * (max_retries + 1)
        /\ linkGotos <= Len(Categories) * (max_retries + 1)
        /\ Len(gotoLog) <= max_retries + 1

C4_Witness ==
    /\ pc = "link_sleep"
    /\ linkGotos = Len(Categories) * (max_retries + 1)

\* C5: every pass through safe_goto either calls safe_goto again with one more
\* retry, at most max_retries times, or returns True or False to its caller;
\* no exception leaves it.
C5_AlwaysReturnsBoolean ==
    [][pc = "goto" =>
            \/ /\ pc' = "goto"
               /\ retries' = retries + 1
               /\ retries' <= max_retries
               /\ result' = None
               /\ exc' = exc
            \/ /\ pc' = "goto_ret"
               /\ result' \in {Some(TRUE), Some(FALSE)}
               /\ result' = Some(TRUE) <=> gotoLog'[Len(gotoLog')] = "ok"
               /\ exc' = exc]_vars

\* a call that saw a timeout and then another error has returned False
C5_Witness ==
    /\ pc = "goto_ret"
    /\ gotoLog = <<"timeout", "error">>
    /\ result = Some(FALSE)
    /\ ~exc

\* C6: a goto attempt that fails with an error other than a timeout is the
\* last attempt of its safe_goto call: the call has returned False, and the
\* only delays slept are the backoffs of the timeouts before it.
C6_ErrorFailsAtOnce ==
    \A i \in DOMAIN gotoLog :
        gotoLog[i] = "error" =>
            /\ i = Len(gotoLog)
            /\ pc = "goto_ret"
            /\ result = Some(FALSE)
            /\ sleeps = Backoffs(i - 1)

\* an error at the second retry, with one retry left
C6_Witness ==
    /\ pc = "goto_ret"
    /\ gotoLog = <<"timeout", "timeout", "error">>
    /\ retries < max_retries
    /\ sleeps = <<2, 4>>

\* C7 (as claimed): once the engine is launched, the run ends only by
\* returning the aggregate after every company was processed.
C7_RunNeverAborts ==
    (pc \in {"done", "raised"} /\ launches > 0) =>
        (pc = "done" /\ ci = Len(companies) + 1)

\* C8: the only browsing context that can be open is that of the company
\* being processed, it is the ci-th context created, and no context is open
\* between two companies, in run's finally clause or after the run.
C8_OneContextPerCompany ==
    /\ Cardinality(contexts) <= 1
    /\ InCompany => (contexts = {ci} /\ created = ci)
    /\ ~InCompany => contexts = {}

\* the second company's processing ended with an exception; no context is open
C8_Witness ==
    /\ pc = "raised"
    /\ created = 2
    /\ contexts = {}

\* C9: the engine is launched at most once and closed at most once; it is open
\* as long as the loop over the companies runs; a run that launched it ends,
\* by return or by an exception, with the engine closed exactly once; and
\* after the close nothing but the end of run follows, so no context is
\* created.
C9_EngineClosedOnce ==
    /\ launches <= 1
    /\ closes <= launches
    /\ (InCompany \/ pc \in {"run_loop", "browser_close"}) =>
            (browser = "open" /\ launches = 1 /\ closes = 0)
    /\ pc \in {"done", "saved"} => (launches = 1 /\ closes = 1 /\ browser = "closed")
    /\ pc \in {"raised", "exited"} => (closes = launches /\ browser # "open")
    /\ browser = "closed" => (pc \in {"done", "raised", "saved", "exited"} /\ contexts = {})

\* an exception left the company processing; the engine is closed
C9_Witness ==
    /\ pc = "raised"
    /\ created >= 1
    /\ launches = 1
    /\ closes = 1
    /\ browser = "closed"

\* C10: the sites of a company are begun in configuration order, and when a
\* site was skipped after a failed search navigation or an exception, the loop
\* still begins every configured site and ends without an exception.
C10_SiteFailureSkipsOnlyThatSite ==
    /\ siteLog = SubSeq(Sites, 1, Len(siteLog))
    /\ (pc = "site_loop" /\ si <= Len(Sites)) => Len(siteLog) = si - 1
    /\ (pc = "context_close" /\ failedSites # {}) => (siteLog = Sites /\ ~exc)

\* the first site failed, and all sites were begun
C10_Witness ==
    /\ pc = "context_close"
    /\ 1 \in failedSites
    /\ Len(Sites) >= 2
    /\ siteLog = Sites
    /\ \E c \in Range(Categories) : \E i \in DOMAIN data_points[c] :
            data_points[c][i].company = company_name /\ data_points[c][i].source = Sites[2]

(***************************************************************************)
(* C11: a URL is in collected_urls only if an extraction on it has already *)
(* produced a record with at least one fragment (the record is either      *)
(* still being returned to scrape_company or already in the aggregate);    *)
(* a failed fetch, an empty extraction or an exception adds no URL, and a  *)
(* search URL, which is only navigated to, is never in collected_urls.     *)
(***************************************************************************)
Pending(u) == data # None /\ data[1].url = u /\ data[1].text_data # <<>>

C11_CollectedOnlyAfterRecord ==
    /\ [](\A u \in collected_urls : Pending(u) \/ RecordsOf(u) # {})
    /\ [][collected_urls' # collected_urls =>
              /\ pc = "extract_content" /\ pc' = "extract_ret"
              /\ collected_urls' = collected_urls \cup {relevant_urls[li]}
              /\ data' # None
              /\ data'[1].url = relevant_urls[li]
              /\ data'[1].text_data # <<>>]_vars

\* the URL is collected by the capex extraction, after three extractions of it
\* that found nothing, failed to fetch or raised
C11_Witness ==
    /\ pc = "extract_ret" /\ di = 4
    /\ Pending(relevant_urls[li])
    /\ collected_urls = {relevant_urls[li]}
    /\ RecordsOf(relevant_urls[li]) = {}

(***************************************************************************)
(* C12: every record in every category of the aggregate has a non-empty    *)
(* text_data, and an extraction whose document yields no surviving         *)
(* fragment for the data_type returns no record.                           *)
(***************************************************************************)
C12_RecordsHaveFragments ==
    /\ \A c \in Range(Categories) : \A i \in DOMAIN data_points[c] :
           data_points[c][i].text_data # <<>>
    /\ data # None => data[1].text_data # <<>>
    /\ (pc = "extract_ret" /\ page_doc # None /\ TextData(page_doc[1], data_type) = <<>>)
           => data = None

\* a record is in the aggregate and the extraction just made found no fragment
C12_Witness ==
    /\ pc = "extract_ret" /\ data = None
    /\ page_doc # None /\ TextData(page_doc[1], data_type) = <<>>
    /\ \E c \in Range(Categories) : data_points[c] # <<>>
    /\ relevant_urls[li] \notin collected_urls

(***************************************************************************)
(* C13: the aggregate is append-only: in every step the sequence of every  *)
(* category after the step has the sequence before the step as a prefix,   *)
(* and a step of save_results leaves the aggregate as it is.               *)
(***************************************************************************)
IsPrefix(a, b) == Len(a) <= Len(b) /\ SubSeq(b, 1, Len(a)) = a

C13_AppendOnly ==
    [][/\ \A c \in Range(Categories) : IsPrefix(data_points[c], data_points'[c])
       /\ saves' # saves => data_points' = data_points]_vars

\* save_results has run on an aggregate with three records in one category
C13_Witness ==
    /\ pc = "saved" /\ saves = 1
    /\ \E c \in Range(Categories) : Len(data_points[c]) >= 3

(***************************************************************************)
(* C14: the processing order is fixed: companies in input order, sites in  *)
(* configuration order, links in discovery order and, for each link, the   *)
(* categories in the order growth_rate, performance, marginal_changes,     *)
(* capex; every record is appended at the position being processed, so     *)
(* that in every category the records are ordered by (company position,    *)
(* site position, link position).                                          *)
(***************************************************************************)
First(seq, x) == CHOOSE i \in DOMAIN seq : seq[i] = x /\ \A j \in 1..i - 1 : seq[j] # x

\* record a comes before record b in the processing order; the link positions
\* are known while the site of both records is being processed
Before(a, b) ==
    \/ First(companies, a.company) < First(companies, b.company)
    \/ /\ a.company = b.company
       /\ \/ First(Sites, a.source) < First(Sites, b.source)
          \/ /\ a.source = b.source
             /\ (relevant_urls # <<>> /\ a.company = company_name /\ a.source = site_name)
                    => First(relevant_urls, a.url) < First(relevant_urls, b.url)

OrderedRecords ==
    \A c \in Range(Categories) : \A i, j \in DOMAIN data_points[c] :
        i < j => Before(data_points[c][i], data_points[c][j])

\* the loops advance one position at a time, and a record is appended to the
\* category, company, site and link being processed
OrderedStep ==
    /\ ci' \in {ci, ci + 1}
    /\ (si >= 1 /\ si' # 0) => si' \in {si, si + 1}
    /\ (li >= 1 /\ li' # 0) => li' \in {li, li + 1}
    /\ (di >= 1 /\ di' # 0) => di' \in {di, di + 1}
    /\ \A c \in Range(Categories) :
          data_points'[c] # data_points[c] =>
              /\ c = Categories[di]
              /\ data_points'[c][Len(data_points'[c])] =
                     [company |-> companies[ci], source |-> Sites[si],
                      url |-> relevant_urls[li], text_data |-> data[1].text_data]

C14_FixedProcessingOrder ==
    /\ [](Categories = <<"growth_rate", "performance", "marginal_changes", "capex">>)
    /\ []OrderedRecords
    /\ [][OrderedStep]_vars

\* one category holds records of two links of one site followed by a record of
\* the next site, and one category holds records of two companies
C14_Witness ==
    /\ \E c \in Range(Categories) : \E i \in 1..Len(data_points[c]) - 2 :
          /\ data_points[c][i].company = data_points[c][i + 1].company
          /\ data_points[c][i].source = data_points[c][i + 1].source
          /\ data_points[c][i + 1].source # data_points[c][i + 2].source
    /\ \E c \in Range(Categories) : \E i \in 1..Len(data_points[c]) - 1 :
          data_points[c][i].company # data_points[c][i + 1].company

(***************************************************************************)
(* C15: for every company and site, the URLs handed to                     *)
(* extract_data_from_url are exactly the first min(3, n) entries, in       *)
(* discovery order, of the n discovered links whose resolved, lower-cased  *)
(* address contains stock, company, financial, share, quote or the         *)
(* hyphenated lower-cased company name: while the links of a site are      *)
(* processed the URLs handed over are a prefix of these survivors no       *)
(* longer than 3, the URL being extracted or navigated to is the last of   *)
(* them, and the site is left only when min(3, n) URLs were handed over.   *)
(***************************************************************************)
Survives(address, company) ==
    \E keyword \in {<<"s", "t", "o", "c", "k">>, <<"c", "o", "m", "p", "a", "n", "y">>, <<"f", "i", "n", "a", "n", "c", "i", "a", "l">>, <<"s", "h", "a", "r", "e">>, <<"q", "u", "o", "t", "e">>,
                    ReplaceChar(Lower(company), " ", "-")} :
        Contains(Lower(address), keyword)

Survivors(hrefs, base, company) ==
    SelectSeq([i \in DOMAIN hrefs |-> ResolveHref(base, hrefs[i])],
              LAMBDA address : Survives(address, company))

Min(a, b) == IF a < b THEN a ELSE b

HandedArePrefix ==
    (InLink \/ pc = "link_loop") =>
        LET S == Survivors(links, base_url, company_name)
        IN /\ Len(handed) <= Min(3, Len(S))
           /\ handed = SubSeq(S, 1, Len(handed))
           /\ InLink => relevant_urls[li] = handed[Len(handed)]
           /\ (pc = "goto" /\ caller = "extract") => url = handed[Len(handed)]

C15_FirstThreeSurvivors ==
    /\ []HandedArePrefix
    /\ [][(pc = "link_loop" /\ pc' = "site_loop") =>
              Len(handed) = Min(3, Len(Survivors(links, base_url, company_name)))]_vars

\* three URLs were handed over; a fourth survivor and a filtered-out link exist
C15_Witness ==
    /\ pc = "link_loop"
    /\ Len(handed) = 3
    /\ Len(Survivors(links, base_url, company_name)) > 3
    /\ Len(links) > Len(Survivors(links, base_url, company_name))

(***************************************************************************)
(* C16: whenever a run ends, also when it ends early because of a failure, *)
(* save_results still runs over the partial aggregate, so that the records *)
(* collected before the failure are written: when the program has ended,   *)
(* every record of the aggregate is in the snapshot file of its company.   *)
(***************************************************************************)
Written(c, r) ==
    \E p \in DOMAIN files :
        /\ p[1] = company_dir(r.company) /\ p[2] = "raw_data"
        /\ \E j \in DOMAIN files[p][c] : files[p][c][j] = r

C16_WriterRunsWhenRunEnds ==
    pc \in {"saved", "exited"} =>
        \A c \in Range(Categories) : \A i \in DOMAIN data_points[c] :
            Written(c, data_points[c][i])

(***************************************************************************)
(* C17: after save_results on an aggregate with records of k distinct      *)
(* company names, the output root (empty before) has exactly k company     *)
(* subdirectories; the subdirectory of each company holds one snapshot     *)
(* file with the four category lists filtered to that company, one         *)
(* tabular file for every category with a record of that company and no    *)
(* tabular file for the other categories.                                  *)
(***************************************************************************)
Subdirectories == {p[1] : p \in DOMAIN files}

RecordsOfCompany(c, company) ==
    SelectSeq(data_points[c], LAMBDA item : item.company = company)

C17_OneDirectoryPerCompany ==
    (pc = "saved" /\ saves = 1) =>
        /\ Cardinality(Subdirectories) = Cardinality(CompaniesOf(data_points))
        /\ \A company \in CompaniesOf(data_points) :
              LET dir == company_dir(company)
                  snapshots == {p \in DOMAIN files : p[1] = dir /\ p[2] = "raw_data"}
              IN /\ Cardinality(snapshots) = 1
                 /\ \A p \in snapshots : \A c \in Range(Categories) :
                       files[p][c] = RecordsOfCompany(c, company)
                 /\ \A c \in Range(Categories) :
                       LET tables == {p \in DOMAIN files : p[1] = dir /\ p[2] = c}
                       IN IF RecordsOfCompany(c, company) # <<>>
                          THEN /\ Cardinality(tables) = 1
                               /\ \A p \in tables : files[p] = RecordsOfCompany(c, company)
                          ELSE tables = {}

(***************************************************************************)
(* C18: every invocation of save_results writes under a new timestamp and  *)
(* overwrites no file of an earlier invocation: in a step of save_results  *)
(* no file that exists carries the timestamp of the invocation, and every  *)
(* file that exists is still there afterwards with the same content.       *)
(***************************************************************************)
C18_NeverOverwrites ==
    [][saves' = saves + 1 =>
          \A p \in DOMAIN files :
              /\ p[3] # timestamp(now)
              /\ p \in DOMAIN files'
              /\ files'[p] = files[p]]_vars

(***************************************************************************)
(* C19: clean_text is idempotent: clean_text applied to a result of        *)
(* clean_text returns that result.                                         *)
(***************************************************************************)
C19_CleanTextIdempotent ==
    pc = "cleaned" => clean_text(cleaned[1]) = cleaned[1]

(***************************************************************************)
(* C20: the result of clean_text has no whitespace at its ends and no two  *)
(* adjacent whitespace characters, consists of word characters, spaces,    *)
(* %, the currency symbols, '.' and '-' only, and keeps every allowed      *)
(* non-whitespace character of the input in order; for the empty or absent *)
(* input it is the empty string.                                           *)
(***************************************************************************)
Allowed(c) ==
    \/ c \in Range(UpperChars) \cup Range(LowerChars) \cup Range(DigitChars) \cup {"_"}
    \/ c \in {"%", "₹", "$", "€", "£", ".", "-"}

Whitespace(c) == c \in {" ", "\t", "\n", "\r"}

C20_CleanTextShape ==
    pc = "cleaned" =>
        LET r == cleaned[1]
        IN /\ r # <<>> => (~Whitespace(r[1]) /\ ~Whitespace(r[Len(r)]))
           /\ \A i \in 1..Len(r) - 1 : ~(Whitespace(r[i]) /\ Whitespace(r[i + 1]))
           /\ \A i \in DOMAIN r : Allowed(r[i]) \/ r[i] = " "
           /\ SelectSeq(r, LAMBDA c : ~Whitespace(c))
                 = SelectSeq(text, LAMBDA c : Allowed(c))
           /\ text = <<>> => r = <<>>

(***************************************************************************)
(* C22: a navigation timeout is recoverable: when the first j-1 goto       *)
(* attempts of a safe_goto call timed out and attempt j succeeded, with    *)
(* 1 <= j <= max_retries + 1, the call returns success after exactly j     *)
(* attempts, having slept 2*1 .. 2*(j-1) between them and 2 after the      *)
(* successful attempt; a success is always the last attempt of its call,   *)
(* and after fewer than max_retries + 1 timeouts the next attempt is made. *)
(***************************************************************************)
TimeoutsThenOk(log) ==
    /\ log # <<>>
    /\ log[Len(log)] = "ok"
    /\ \A i \in 1..Len(log) - 1 : log[i] = "timeout"

InExtraction ==
    \/ pc \in {"extract_call", "extract_content"}
    \/ pc \in {"goto", "goto_ret"} /\ caller = "extract"

C23_AbsentLeavesStoreUnchanged ==
    [][/\ InExtraction =>
             /\ data_points' = data_points
             /\ (pc' = "extract_ret" /\ data' = None) => collected_urls' = collected_urls
             /\ collected_urls' # collected_urls => (pc' = "extract_ret" /\ data' # None)
       /\ (pc = "extract_ret" /\ data = None) =>
             (collected_urls' = collected_urls /\ data_points' = data_points)]_vars

\* the page was fetched and read, no fragment survived, None was returned and
\* the URL is not collected
C23_Witness ==
    /\ pc = "extract_ret" /\ data = None
    /\ linkGotos > 0
    /\ page_doc # None /\ TextData(page_doc[1], data_type) = <<>>
    /\ collected_urls = {}
    /\ \A c \in Range(Categories) : data_points[c] = <<>>

(***************************************************************************)
(* C26: in every reachable state each URL occurs in at most one record of  *)
(* the whole aggregate, counted across the four categories, all companies  *)
(* and all sites, also when the same link is discovered again on another   *)
(* site or for a later company.                                            *)
(***************************************************************************)
AggregateUrls ==
    UNION {{data_points[c][i].url : i \in DOMAIN data_points[c]} : c \in Range(Categories)}

C26_OneRecordPerUrl ==
    \A u \in AggregateUrls \cup collected_urls : Cardinality(RecordsOf(u)) <= 1

\* the four extractions of a link were made for a URL whose record stems from
\* another company and another site
C26_Witness ==
    /\ pc = "link_sleep"
    /\ \E c \in Range(Categories) : \E i \in DOMAIN data_points[c] :
          /\ data_points[c][i].url = relevant_urls[li]
          /\ data_points[c][i].company # company_name
          /\ data_points[c][i].source # site_name
    /\ Cardinality(AggregateUrls) >= 3

(***************************************************************************)
(* C27: run terminates when every renderer call returns and every link     *)
(* list is finite: the goto attempts made for one company never exceed     *)
(* (number of sites) * (max_retries + 1) * (1 + 3 links * 4 categories),   *)
(* and the run eventually reaches its end (returned or raised) with no     *)
(* engine open: closed, if it was launched.                                *)
(***************************************************************************)
GotoBound == Len(Sites) * (max_retries + 1) * (1 + 3 * 4)

C27_RunTerminates ==
    /\ [](companyGotos <= GotoBound)
    /\ <>(/\ pc \in {"done", "raised"}
          /\ browser # "open"
          /\ launches = 1 => browser = "closed")

\* the run returned after a company for which every search succeeded at the
\* last permitted attempt and every extraction timed out to the end
C27_Witness ==
    /\ pc = "done"
    /\ browser = "closed"
    /\ companyGotos = GotoBound

(***************************************************************************)
(* C24: within one record text_data has no duplicate fragment and keeps    *)
(* the order of first occurrence among the candidate elements; a           *)
(* candidate's text is kept only if its trimmed length exceeds 10, and     *)
(* what is stored is the cleaned form, on which duplicates are detected.   *)
(***************************************************************************)
\* the cleaned texts of the candidates whose trimmed text is longer than 10
CleanedKept(doc, cat) ==
    LET kept == SelectSeq(Elements(doc, cat), LAMBDA e : Len(Strip(e.text)) > 10)
    IN [i \in DOMAIN kept |-> clean_text(kept[i].text)]

ReturnedTextData == IF data = None THEN <<>> ELSE data[1].text_data

C24_FragmentsDistinctAndOrdered ==
    (pc = "extract_ret" /\ page_doc # None) =>
        LET cl == CleanedKept(page_doc[1], data_type)
            td == ReturnedTextData
        IN /\ \A i, j \in DOMAIN td : td[i] = td[j] => i = j
           /\ Range(td) = Range(cl)
           /\ \A i, j \in DOMAIN td : i < j => First(cl, td[i]) < First(cl, td[j])

\* a record of two fragments: a candidate was too short, and two candidates
\* with different texts had the same cleaned form
C24_Witness ==
    /\ pc = "extract_ret" /\ data # None
    /\ Len(data[1].text_data) >= 2
    /\ \E i \in DOMAIN Elements(page_doc[1], data_type) :
          Len(Strip(Elements(page_doc[1], data_type)[i].text)) = 10
    /\ \E i, j \in DOMAIN Elements(page_doc[1], data_type) :
          LET a == Elements(page_doc[1], data_type)[i].text
              b == Elements(page_doc[1], data_type)[j].text
          IN a # b /\ Len(Strip(a)) > 10 /\ clean_text(a) = clean_text(b)

(***************************************************************************)
(* C25: a table is treated as a unit: if any text inside a table matches   *)
(* the pattern of the category, every row and every cell of that table     *)
(* becomes a candidate, also those that do not match themselves, and a     *)
(* table with no matching text contributes no candidate through the table  *)
(* scan.  As stated, with the header cells (th) among the cells:           *)
(***************************************************************************)
TableMatches(doc, tbl, cat) ==
    \E i \in DOMAIN doc :
        doc[i].table = tbl /\ \E k \in DOMAIN doc[i].own : PatternSearch(cat, doc[i].own[k])

\* the candidates that the table scan added (lines 155-158)
ScanCandidates(doc, cat) ==
    LET elements == Elements(doc, cat)
    IN SubSeq(elements, Len(FindAllByText(doc, cat)) + 1, Len(elements))

\* the rows and cells of the matching tables, in document order
UnitsOfMatchingTables(doc, cat, cellTags) ==
    LET matching == {tbl \in {doc[i].table : i \in DOMAIN doc} \ {0} :
                         TableMatches(doc, tbl, cat)}
    IN SelectSeq(doc, LAMBDA e : e.table \in matching /\ e.tag \in {"tr"} \cup cellTags)

C25_TableIsUnit ==
    (pc = "extract_ret" /\ page_doc # None) =>
        ScanCandidates(page_doc[1], data_type)
            = UnitsOfMatchingTables(page_doc[1], data_type, {"td", "th"})

\* C25, amended: the rows (tr) and the data cells (td) of a table with a
\* matching text are the candidates of the table scan, in document order; a
\* header cell (th) is not a candidate itself, and a table without a matching
\* text contributes nothing
C25_TableIsUnitOfRowsAndDataCells ==
    (pc = "extract_ret" /\ page_doc # None) =>
        ScanCandidates(page_doc[1], data_type)
            = UnitsOfMatchingTables(page_doc[1], data_type, {"td"})

\* the first table matches only through a header cell and has a data cell
\* that does not match; the second table has no matching text; the text of
\* the data cell that does not match is a fragment of the record
C25_Witness ==
    /\ pc = "extract_ret" /\ data # None
    /\ TableMatches(page_doc[1], 1, data_type)
    /\ 2 \in TableIds(page_doc[1]) /\ ~TableMatches(page_doc[1], 2, data_type)
    /\ \A i \in DOMAIN page_doc[1] :
          (page_doc[1][i].table = 1 /\ page_doc[1][i].tag = "td")
              => ~PatternSearch(data_type, page_doc[1][i].text)
    /\ \E i \in DOMAIN page_doc[1] :
          /\ page_doc[1][i].table = 1 /\ page_doc[1][i].tag = "td"
          /\ clean_text(page_doc[1][i].text) \in Range(data[1].text_data)

(***************************************************************************)
(* C21: extract_amount returns absent when the text has no numeric token;  *)
(* otherwise it returns the first signed decimal (of the text without its  *)
(* thousands separators) multiplied by exactly one factor: 10,000,000 if   *)
(* cr or crore is present, else 100,000 if lakh or lakhs is present, else  *)
(* 1,000,000 if million or mn is present, else 1,000,000,000 if billion or *)
(* bn is present, else 1.  Factors never stack and the result is exact:    *)
(* "₹12.5 crore" gives 125000000 and "1.2 lakh" gives 120000.              *)
(***************************************************************************)
Has(t, word) == \E i \in 0..Len(t) - Len(word) : SubSeq(t, i + 1, i + Len(word)) = word

\* the power of ten of the one factor that applies to the text t
FactorZeros(t) ==
    IF Has(t, <<"c", "r">>) \/ Has(t, <<"c", "r", "o", "r", "e">>) THEN 7
    ELSE IF Has(t, <<"l", "a", "k", "h">>) \/ Has(t, <<"l", "a", "k", "h", "s">>) THEN 5
    ELSE IF Has(t, <<"m", "i", "l", "l", "i", "o", "n">>) \/ Has(t, <<"m", "n">>) THEN 6
    ELSE IF Has(t, <<"b", "i", "l", "l", "i", "o", "n">>) \/ Has(t, <<"b", "n">>) THEN 9
    ELSE 0

RECURSIVE Pow10(_)
Pow10(n) == IF n = 0 THEN 1 ELSE 10 * Pow10(n - 1)

\* the number written by the digits t[from..to], by the place of each digit
DigitsValue(t, from, to) ==
    LET place[i \in from - 1..to] ==
            IF i = from - 1 THEN 0
            ELSE place[i - 1]
                 + (CHOOSE d \in 0..9 : DigitChars[d + 1] = t[i]) * Pow10(to - i)
    IN place[to]

\* d is the first signed decimal of t times ten to the zeros-th power, exactly
IsFirstDecimalTimes(d, t, zeros) ==
    LET first == CHOOSE i \in DOMAIN t : IsDigit(t[i]) /\ \A j \in 1..i - 1 : ~IsDigit(t[j])
        isDigits(a, b) == \A i \in a..b : i \in DOMAIN t /\ IsDigit(t[i])
        whole == CHOOSE e \in first..Len(t) : isDigits(first, e) /\ ~isDigits(first, e + 1)
        pointed == whole < Len(t) /\ t[whole + 1] = "."
        last == IF pointed
                THEN CHOOSE e \in whole + 1..Len(t) :
                         isDigits(whole + 2, e) /\ ~isDigits(whole + 2, e + 1)
                ELSE whole
        places == IF pointed THEN last - (whole + 1) ELSE 0
        digits == SelectSeq(SubSeq(t, first, last), IsDigit)
        magnitude == DigitsValue(digits, 1, Len(digits))
        signed == IF first > 1 /\ t[first - 1] = "-" THEN 0 - magnitude ELSE magnitude
    IN IF signed = 0 THEN d.coef = 0
       ELSE \E z \in 0..6 : d.exp = zeros - places + z /\ d.coef * Pow10(z) = signed

\* the integer a Decimal without a fraction stands for
AsInteger(d) == d.coef * Pow10(d.exp)

C21_AmountIsFirstDecimalTimesOneFactor ==
    pc = "amounted" =>
        LET t == Lower(SelectSeq(text, LAMBDA c : c # ","))
        IN /\ amount = None <=> ~\E i \in DOMAIN text : IsDigit(text[i])
           /\ amount # None => IsFirstDecimalTimes(amount[1], t, FactorZeros(t))
           /\ text = <<"₹", "1", "2", ".", "5", " ", "c", "r", "o", "r", "e">> => AsInteger(amount[1]) = 125000000
           /\ text = <<"1", ".", "2", " ", "l", "a", "k", "h">> => AsInteger(amount[1]) = 120000

\* a text naming two units: the number was multiplied by the factor of the
\* first in the check order, although the other stands first in the text
C21_Witness ==
    /\ pc = "amounted" /\ amount # None
    /\ text = <<"b", "n", " ", "c", "r", "o", "r", "e", "₹", "1", ".", "2">>
    /\ amount[1] = [coef |-> 12, exp |-> 6]

====
